---- MODULE Spec2Model ----
(***************************************************************************)
(* The snowflake ID generator of src/src/lib.rs as a state machine.        *)
(*                                                                         *)
(* A u64 is kept at its full width as four 16-bit words, least significant *)
(* first, so that the shifts of the bit layout lose exactly the bits the   *)
(* Rust shifts lose.  A clock reading is the result of                     *)
(* SystemTime::now().duration_since(epoch): either a u64 of milliseconds   *)
(* or TimeIsBeforeEpoch, on which get_time_millis panics.                  *)
(***************************************************************************)
EXTENDS Integers, Sequences, FiniteSets, TLC

\* ------------------------------------------------------------------ bounds

\* Clock readings 0..MaxTick milliseconds after the epoch ...
MaxTick == 1
\* ... and the readings 2^42 - 1 .. 2^42 - 1 + MaxHigh, around the width of
\* the timestamp field.
MaxHigh == 1

\* ------------------------------------------------------------- u64 values

\* A u64 is four words of 64 / 4 bits.
WordBits == 64 \div 4

RECURSIVE Pow2(_)
Pow2(n) == IF n = 0 THEN 1 ELSE 2 * Pow2(n - 1)

Word == Pow2(WordBits)

\* A small number as a u64 (`x as u64`).
FromNat(n) == <<n % Word, (n \div Word) % Word, 0, 0>>

Zero64 == FromNat(0)
Max64 == <<Word - 1, Word - 1, Word - 1, Word - 1>>
\* 2^42 - 1 and 2^42: bit 42 is bit 10 of the third word.
TwoPow42Minus1 == <<Word - 1, Word - 1, 1023, 0>>
TwoPow42 == <<0, 0, 1024, 0>>


\* v << n for n < 16: each word keeps its low bits and takes the bits the
\* word below it loses; the bits shifted out of the top word are dropped.
ShlBits(v, n) ==
    LET p == Pow2(n)
        q == Pow2(WordBits - n)
    IN  << (v[1] * p) % Word,
           ((v[2] * p) % Word) + (v[1] \div q),
           ((v[3] * p) % Word) + (v[2] \div q),
           ((v[4] * p) % Word) + (v[3] \div q) >>

RECURSIVE Shl(_, _)
Shl(v, n) ==
    IF n >= WordBits THEN Shl(<<0, v[1], v[2], v[3]>>, n - WordBits)
    ELSE IF n = 0 THEN v
    ELSE ShlBits(v, n)

\* v >> n for n < 16.
ShrBits(v, n) ==
    LET p == Pow2(n)
        q == Pow2(WordBits - n)
    IN  << (v[1] \div p) + ((v[2] % p) * q),
           (v[2] \div p) + ((v[3] % p) * q),
           (v[3] \div p) + ((v[4] % p) * q),
           v[4] \div p >>

RECURSIVE Shr(_, _)
Shr(v, n) ==
    IF n >= WordBits THEN Shr(<<v[2], v[3], v[4], 0>>, n - WordBits)
    ELSE IF n = 0 THEN v
    ELSE ShrBits(v, n)

RECURSIVE OrWord(_, _)
OrWord(a, b) ==
    IF a = 0 THEN b
    ELSE IF b = 0 THEN a
    ELSE (IF a % 2 = 1 \/ b % 2 = 1 THEN 1 ELSE 0)
         + 2 * OrWord(a \div 2, b \div 2)

RECURSIVE AndWord(_, _)
AndWord(a, b) ==
    IF a = 0 \/ b = 0 THEN 0
    ELSE (IF a % 2 = 1 /\ b % 2 = 1 THEN 1 ELSE 0)
         + 2 * AndWord(a \div 2, b \div 2)

\* a | b and a & b on u64.
BitOr(a, b) ==
    <<OrWord(a[1], b[1]), OrWord(a[2], b[2]), OrWord(a[3], b[3]), OrWord(a[4], b[4])>>

BitAnd(a, b) ==
    <<AndWord(a[1], b[1]), AndWord(a[2], b[2]), AndWord(a[3], b[3]), AndWord(a[4], b[4])>>

\* a < b and a <= b on u64.
Lt(a, b) ==
    \/ a[4] < b[4]
    \/ a[4] = b[4] /\ a[3] < b[3]
    \/ a[4] = b[4] /\ a[3] = b[3] /\ a[2] < b[2]
    \/ a[4] = b[4] /\ a[3] = b[3] /\ a[2] = b[2] /\ a[1] < b[1]

Le(a, b) == a = b \/ Lt(a, b)

\* v + 1 on u64 (wrapping at 2^64, which no reading of the model reaches).
Add1(v) ==
    IF v[1] < Word - 1 THEN <<v[1] + 1, v[2], v[3], v[4]>>
    ELSE IF v[2] < Word - 1 THEN <<0, v[2] + 1, v[3], v[4]>>
    ELSE IF v[3] < Word - 1 THEN <<0, 0, v[3] + 1, v[4]>>
    ELSE <<0, 0, 0, (v[4] + 1) % Word>>

RECURSIVE AddN(_, _)
AddN(v, n) == IF n = 0 THEN v ELSE AddN(Add1(v), n - 1)

\* `x as u8` and `x as u16` of a u64.
AsU8(v) == v[1] % 256
AsU16(v) == v[1]

\* ------------------------------------------------------ program constants

\* The counter counts modulo 4096.
CounterMod == 4096
\* machine_id and thread_id must be less than 32.
IdLimit == 32
\* The bit layout: time from bit 22, machine_id from bit 17, thread_id from
\* bit 12, counter from bit 0.
TimeShift == 22
MachineShift == 17
ThreadShift == 12
\* 0x3E0000, 0x1F000 and 0xFFF.
MachineMask == 4063232
ThreadMask == 126976
CounterMask == 4095

\* ------------------------------------------------------------- conversions

\* Mutant of SnowflakeFromU64: the counter mask is one bit short (0x7FF).
SnowflakeFromU64Short(value) ==
    [ time       |-> Shr(value, TimeShift),
      machine_id |-> AsU8(Shr(BitAnd(value, FromNat(MachineMask)), MachineShift)),
      thread_id  |-> AsU8(Shr(BitAnd(value, FromNat(ThreadMask)), ThreadShift)),
      counter    |-> AsU16(BitAnd(value, FromNat(CounterMask \div 2))) ]

\* impl From<u64> for Snowflake
SnowflakeFromU64(value) ==
    [ time       |-> Shr(value, TimeShift),
      machine_id |-> AsU8(Shr(BitAnd(value, FromNat(MachineMask)), MachineShift)),
      thread_id  |-> AsU8(Shr(BitAnd(value, FromNat(ThreadMask)), ThreadShift)),
      counter    |-> AsU16(BitAnd(value, FromNat(CounterMask))) ]

\* Mutant of U64FromSnowflake: machine_id is shifted one bit too few.
U64FromSnowflakeMisplaced(value) ==
    BitOr(BitOr(BitOr(Shl(value.time, TimeShift),
                      Shl(FromNat(value.machine_id), MachineShift - 1)),
                Shl(FromNat(value.thread_id), ThreadShift)),
          FromNat(value.counter))

\* Mutant of U64FromSnowflake: the counter is left out.
U64FromSnowflakeNoCounter(value) ==
    BitOr(BitOr(Shl(value.time, TimeShift),
                Shl(FromNat(value.machine_id), MachineShift)),
          Shl(FromNat(value.thread_id), ThreadShift))

\* impl From<Snowflake> for u64
U64FromSnowflake(value) ==
    BitOr(BitOr(BitOr(Shl(value.time, TimeShift),
                      Shl(FromNat(value.machine_id), MachineShift)),
                Shl(FromNat(value.thread_id), ThreadShift)),
          FromNat(value.counter))

\* Mutant of GenerateValue: thread_id is left out.
GenerateValueNoThread(lt, mid, tid, ctr) ==
    BitOr(BitOr(Shl(lt, TimeShift),
                Shl(FromNat(mid), MachineShift)),
          FromNat(ctr))

\* The value generate returns: the expression that ends generate.
GenerateValue(lt, mid, tid, ctr) ==
    BitOr(BitOr(BitOr(Shl(lt, TimeShift),
                      Shl(FromNat(mid), MachineShift)),
                Shl(FromNat(tid), ThreadShift)),
          FromNat(ctr))

\* Mutant of GenerateFuzzyValue: machine_id and thread_id in each other's
\* place.
GenerateFuzzyValueSwapped(lt, mid, tid, ctr) ==
    BitOr(BitOr(BitOr(Shl(lt, TimeShift),
                      Shl(FromNat(tid), MachineShift)),
                Shl(FromNat(mid), ThreadShift)),
          FromNat(ctr))

\* The value generate_fuzzy returns: the expression that ends generate_fuzzy.
GenerateFuzzyValue(lt, mid, tid, ctr) ==
    BitOr(BitOr(BitOr(Shl(lt, TimeShift),
                      Shl(FromNat(mid), MachineShift)),
                Shl(FromNat(tid), ThreadShift)),
          FromNat(ctr))

\* ------------------------------------------------------------------ clock

\* duration_since(epoch) is an error: the time is before the epoch.
TimeIsBeforeEpoch == <<>>

\* The readings the clock can give, in milliseconds since the epoch.
ClockValues ==
    {FromNat(n) : n \in 0..MaxTick}
        \cup {AddN(TwoPow42Minus1, n) : n \in 0..MaxHigh}

Readings == ClockValues \cup {TimeIsBeforeEpoch}

\* A call that panics unwinds with no value.
Panic == <<1>>

\* Mutant of get_time_millis: a time before the epoch counts as 0 ms.
get_time_millis_or_zero(reading) ==
    IF reading = TimeIsBeforeEpoch THEN Zero64 ELSE reading

\* get_time_millis(epoch): the reading in milliseconds; `expect` panics on
\* a time before the epoch.
get_time_millis(reading) ==
    IF reading = TimeIsBeforeEpoch THEN Panic ELSE reading

\* ------------------------------------------------------------------ state

VARIABLES
    pc,          \* per generator: "none" (not constructed), "idle", or
                 \* "spin" (inside generate's busy-wait)
    epoch,       \* SnowflakeGenerator.epoch
    last_time,   \* SnowflakeGenerator.last_time
    machine_id,  \* SnowflakeGenerator.machine_id
    thread_id,   \* SnowflakeGenerator.thread_id
    counter,     \* SnowflakeGenerator.counter
    op,          \* the operation called last on the generator
    tick,        \* flips at every call made on the generator
    args,        \* the identifiers passed to the last construction call
    outcome,     \* how the last call ended: "ok", "panic", or "running"
    ret,         \* the ID the last completed call returned, NoId if it
                 \* returned none
    read,        \* the last clock reading taken for the generator
    reads,       \* how many readings the last call took (MaxReads: that
                 \* many or more)
    first_id,    \* the first ID the generator returned, where a
                 \* specification records it
    built_at,    \* the last_time the generator was constructed with, where
                 \* a specification records it
    conv         \* a value under conversion between u64 and Snowflake

gen_vars == <<pc, epoch, last_time, machine_id, thread_id, counter, op, tick, args,
              outcome, ret, read, reads>>

vars == <<gen_vars, first_id, built_at, conv>>

NoId == <<>>
NoRead == <<0>>
NoConv == [kind |-> "none"]

UNIX_EPOCH == "UNIX_EPOCH"
Epochs == {UNIX_EPOCH, "custom"}

\* The identifiers callers pass: u8 values on both sides of the limit.
MachineInputs == {IdLimit - 1, IdLimit, 255}
ThreadInputs == {10, IdLimit}

Gens == DOMAIN pc

\* The readings counted for one call stop at MaxReads.
MaxReads == 3
CountRead(n) == IF n < MaxReads THEN n + 1 ELSE MaxReads

\* No generator constructed yet.
Unbuilt(G) ==
    /\ pc = [g \in G |-> "none"]
    /\ epoch = [g \in G |-> UNIX_EPOCH]
    /\ last_time = [g \in G |-> Zero64]
    /\ machine_id = [g \in G |-> 0]
    /\ thread_id = [g \in G |-> 0]
    /\ counter = [g \in G |-> 0]
    /\ op = [g \in G |-> "none"]
    /\ tick = [g \in G |-> FALSE]
    /\ args = [g \in G |-> <<0, 0>>]
    /\ outcome = [g \in G |-> "none"]
    /\ ret = [g \in G |-> NoId]
    /\ read = [g \in G |-> NoRead]
    /\ reads = [g \in G |-> 0]
    /\ first_id = [g \in G |-> NoId]
    /\ built_at = [g \in G |-> NoRead]

Init == Unbuilt({1}) /\ conv = NoConv

\* Mutant of IdInRange: 32 itself is let through.
IdInRangeInclusive(id) == id <= IdLimit

\* The assertions of with_epoch: an identifier must be less than 32.
IdInRange(id) == id < IdLimit

\* Mutant of SameMillisecond: a reading past last_time counts as the same
\* millisecond too.
SameMillisecondOrLater(now, lt) == Le(lt, now)

\* generate: the time is the same as the last time an ID was generated.
SameMillisecond(now, lt) == now = lt

\* Mutant of NextCounter: the counter is not incremented.
NextCounterStuck(ctr) == ctr % CounterMod

\* Mutant of NextCounter: the counter goes up by two.
NextCounterSkipping(ctr) == (ctr + 2) % CounterMod

\* generate: the counter after one more ID in the same millisecond.
NextCounter(ctr) == (ctr + 1) % CounterMod

\* Mutant of StillWaiting: the loop ends on a reading equal to last_time.
StillWaitingStrict(now, lt) == Lt(now, lt)

\* Mutant of StillWaiting: the operands of the comparison change places.
StillWaitingSwapped(now, lt) == Le(lt, now)

\* generate: the condition of the busy-wait loop.
StillWaiting(now, lt) == Le(now, lt)

\* generate_fuzzy: the actual time is less than or the same as the last time.
NotAdvanced(now, lt) == Le(now, lt)

\* Mutant of NextCounterFuzzy: the increment is not reduced modulo 4096.
NextCounterFuzzyUnbounded(ctr) == ctr + 1

\* generate_fuzzy: the counter after one more ID on the same timestamp.
NextCounterFuzzy(ctr) == (ctr + 1) % CounterMod

\* SnowflakeGenerator::with_epoch.  The two assertions come first; the clock
\* is read only when both hold.
with_epoch(g, e, mid, tid, reading) ==
    /\ pc[g] = "none"
    /\ op' = [op EXCEPT ![g] = "with_epoch"]
    /\ tick' = [tick EXCEPT ![g] = ~tick[g]]
    /\ args' = [args EXCEPT ![g] = <<mid, tid>>]
    /\ ret' = [ret EXCEPT ![g] = NoId]
    /\ IF ~IdInRange(mid) \/ ~IdInRange(tid)
       THEN /\ outcome' = [outcome EXCEPT ![g] = "panic"]
            /\ reads' = [reads EXCEPT ![g] = 0]
            /\ UNCHANGED <<pc, epoch, last_time, machine_id, thread_id,
                           counter, read>>
       ELSE /\ read' = [read EXCEPT ![g] = reading]
            /\ reads' = [reads EXCEPT ![g] = 1]
            /\ IF get_time_millis(reading) = Panic
               THEN /\ outcome' = [outcome EXCEPT ![g] = "panic"]
                    /\ UNCHANGED <<pc, epoch, last_time, machine_id,
                                   thread_id, counter>>
               ELSE /\ outcome' = [outcome EXCEPT ![g] = "ok"]
                    /\ pc' = [pc EXCEPT ![g] = "idle"]
                    /\ epoch' = [epoch EXCEPT ![g] = e]
                    /\ last_time' = [last_time EXCEPT ![g] = get_time_millis(reading)]
                    /\ machine_id' = [machine_id EXCEPT ![g] = mid]
                    /\ thread_id' = [thread_id EXCEPT ![g] = tid]
                    /\ counter' = [counter EXCEPT ![g] = 0]

\* SnowflakeGenerator::new
new(g, mid, tid, reading) == with_epoch(g, UNIX_EPOCH, mid, tid, reading)

\* SnowflakeGenerator::generate up to its return or to its busy-wait.  A
\* panic unwinds out of the call and leaves the fields as they are at that
\* point; the generator can be called again by a caller that caught it.
generate(g, reading) ==
    /\ pc[g] = "idle"
    /\ op' = [op EXCEPT ![g] = "generate"]
    /\ tick' = [tick EXCEPT ![g] = ~tick[g]]
    /\ read' = [read EXCEPT ![g] = reading]
    /\ reads' = [reads EXCEPT ![g] = 1]
    /\ UNCHANGED <<epoch, machine_id, thread_id, args>>
    /\ IF get_time_millis(reading) = Panic
       THEN /\ outcome' = [outcome EXCEPT ![g] = "panic"]
            /\ ret' = [ret EXCEPT ![g] = NoId]
            /\ UNCHANGED <<pc, last_time, counter>>
       ELSE LET now == get_time_millis(reading)
                next == NextCounter(counter[g])
            IN  IF SameMillisecond(now, last_time[g])
                THEN /\ counter' = [counter EXCEPT ![g] = next]
                     /\ IF next = 0
                        THEN \* now <= last_time: the loop is entered
                             /\ pc' = [pc EXCEPT ![g] = "spin"]
                             /\ outcome' = [outcome EXCEPT ![g] = "running"]
                             /\ UNCHANGED <<last_time, ret>>
                        ELSE /\ last_time' = [last_time EXCEPT ![g] = now]
                             /\ outcome' = [outcome EXCEPT ![g] = "ok"]
                             /\ ret' = [ret EXCEPT ![g] =
                                   GenerateValue(now, machine_id[g], thread_id[g], next)]
                             /\ UNCHANGED pc
                ELSE /\ counter' = [counter EXCEPT ![g] = 0]
                     /\ last_time' = [last_time EXCEPT ![g] = now]
                     /\ outcome' = [outcome EXCEPT ![g] = "ok"]
                     /\ ret' = [ret EXCEPT ![g] =
                           GenerateValue(now, machine_id[g], thread_id[g], 0)]
                     /\ UNCHANGED pc

\* One turn of generate's busy-wait: read the clock again, and leave the
\* loop once the reading is past last_time.
generate_wait(g, reading) ==
    /\ pc[g] = "spin"
    /\ read' = [read EXCEPT ![g] = reading]
    /\ reads' = [reads EXCEPT ![g] = CountRead(reads[g])]
    /\ UNCHANGED <<epoch, machine_id, thread_id, counter, op, tick, args>>
    /\ IF get_time_millis(reading) = Panic
       THEN /\ pc' = [pc EXCEPT ![g] = "idle"]
            /\ outcome' = [outcome EXCEPT ![g] = "panic"]
            /\ ret' = [ret EXCEPT ![g] = NoId]
            /\ UNCHANGED last_time
       ELSE LET now == get_time_millis(reading)
            IN  IF StillWaiting(now, last_time[g])
                THEN UNCHANGED <<pc, outcome, ret, last_time>>
                ELSE /\ pc' = [pc EXCEPT ![g] = "idle"]
                     /\ last_time' = [last_time EXCEPT ![g] = now]
                     /\ outcome' = [outcome EXCEPT ![g] = "ok"]
                     /\ ret' = [ret EXCEPT ![g] =
                           GenerateValue(now, machine_id[g], thread_id[g], counter[g])]

\* Mutant of generate_fuzzy: on a counter wrap it waits for the clock as
\* generate does, instead of adding one to the reading.
generate_fuzzy_waiting(g, reading) ==
    /\ pc[g] = "idle"
    /\ op' = [op EXCEPT ![g] = "generate_fuzzy"]
    /\ tick' = [tick EXCEPT ![g] = ~tick[g]]
    /\ read' = [read EXCEPT ![g] = reading]
    /\ reads' = [reads EXCEPT ![g] = 1]
    /\ UNCHANGED <<epoch, machine_id, thread_id, args>>
    /\ IF get_time_millis(reading) = Panic
       THEN /\ outcome' = [outcome EXCEPT ![g] = "panic"]
            /\ ret' = [ret EXCEPT ![g] = NoId]
            /\ UNCHANGED <<pc, last_time, counter>>
       ELSE LET now == get_time_millis(reading)
                next == NextCounterFuzzy(counter[g])
                bump == NotAdvanced(now, last_time[g])
                ctr == IF bump THEN next ELSE 0
            IN  /\ counter' = [counter EXCEPT ![g] = ctr]
                /\ IF bump /\ next = 0
                   THEN /\ pc' = [pc EXCEPT ![g] = "spin"]
                        /\ outcome' = [outcome EXCEPT ![g] = "running"]
                        /\ UNCHANGED <<last_time, ret>>
                   ELSE /\ last_time' = [last_time EXCEPT ![g] = now]
                        /\ outcome' = [outcome EXCEPT ![g] = "ok"]
                        /\ ret' = [ret EXCEPT ![g] =
                              GenerateFuzzyValue(now, machine_id[g], thread_id[g], ctr)]
                        /\ UNCHANGED pc

\* Mutant of generate_fuzzy: on a counter wrap the timestamp is one past
\* last_time instead of one past the reading.
generate_fuzzy_past_last_time(g, reading) ==
    /\ pc[g] = "idle"
    /\ op' = [op EXCEPT ![g] = "generate_fuzzy"]
    /\ tick' = [tick EXCEPT ![g] = ~tick[g]]
    /\ read' = [read EXCEPT ![g] = reading]
    /\ reads' = [reads EXCEPT ![g] = 1]
    /\ UNCHANGED <<pc, epoch, machine_id, thread_id, args>>
    /\ IF get_time_millis(reading) = Panic
       THEN /\ outcome' = [outcome EXCEPT ![g] = "panic"]
            /\ ret' = [ret EXCEPT ![g] = NoId]
            /\ UNCHANGED <<last_time, counter>>
       ELSE LET read_now == get_time_millis(reading)
                next == NextCounterFuzzy(counter[g])
                bump == NotAdvanced(read_now, last_time[g])
                ctr == IF bump THEN next ELSE 0
                now == IF bump /\ next = 0 THEN Add1(last_time[g]) ELSE read_now
            IN  /\ counter' = [counter EXCEPT ![g] = ctr]
                /\ last_time' = [last_time EXCEPT ![g] = now]
                /\ outcome' = [outcome EXCEPT ![g] = "ok"]
                /\ ret' = [ret EXCEPT ![g] =
                      GenerateFuzzyValue(now, machine_id[g], thread_id[g], ctr)]

\* SnowflakeGenerator::generate_fuzzy
generate_fuzzy(g, reading) ==
    /\ pc[g] = "idle"
    /\ op' = [op EXCEPT ![g] = "generate_fuzzy"]
    /\ tick' = [tick EXCEPT ![g] = ~tick[g]]
    /\ read' = [read EXCEPT ![g] = reading]
    /\ reads' = [reads EXCEPT ![g] = 1]
    /\ UNCHANGED <<pc, epoch, machine_id, thread_id, args>>
    /\ IF get_time_millis(reading) = Panic
       THEN /\ outcome' = [outcome EXCEPT ![g] = "panic"]
            /\ ret' = [ret EXCEPT ![g] = NoId]
            /\ UNCHANGED <<last_time, counter>>
       ELSE LET read_now == get_time_millis(reading)
                next == NextCounterFuzzy(counter[g])
                bump == NotAdvanced(read_now, last_time[g])
                ctr == IF bump THEN next ELSE 0
                now == IF bump /\ next = 0 THEN Add1(read_now) ELSE read_now
            IN  /\ counter' = [counter EXCEPT ![g] = ctr]
                /\ last_time' = [last_time EXCEPT ![g] = now]
                /\ outcome' = [outcome EXCEPT ![g] = "ok"]
                /\ ret' = [ret EXCEPT ![g] =
                      GenerateFuzzyValue(now, machine_id[g], thread_id[g], ctr)]

\* ------------------------------------------------- the clock a run is given

\* Any reading at any time: the clock may jump either way.
AnyReading(g) == Readings

\* a <= b on readings; a time before the epoch is before every other.
ReadingLe(a, b) ==
    \/ a = NoRead
    \/ a = TimeIsBeforeEpoch
    \/ b # TimeIsBeforeEpoch /\ Le(a, b)

\* A clock that never goes back: no reading is below the one before it.
SteadyReading(g) == {r \in Readings : ReadingLe(read[g], r)}

\* A steady clock that stays below 2^42 ms.
SteadyReading42(g) ==
    {r \in SteadyReading(g) : r = TimeIsBeforeEpoch \/ Lt(r, TwoPow42)}

\* Any reading, as long as it and the millisecond after it are below 2^42.
NarrowReading(g) ==
    {r \in Readings : r = TimeIsBeforeEpoch \/ Lt(Add1(r), TwoPow42)}

\* A steady clock whose readings keep every timestamp below 2^42.
SteadyNarrowReading(g) == SteadyReading(g) \cap NarrowReading(g)

\* A clock that never reads before the epoch, and may jump either way.
FromEpochReading(g) == Readings \ {TimeIsBeforeEpoch}

\* The readings a run may take next for generator g, by the clock it runs on.
ReadingsOn(clock, g) ==
    CASE clock = "any" -> AnyReading(g)
      [] clock = "from_epoch" -> FromEpochReading(g)
      [] clock = "steady" -> SteadyReading(g)
      [] clock = "steady42" -> SteadyReading42(g)
      [] clock = "steady_narrow" -> SteadyNarrowReading(g)

\* ------------------------------------------------------------ the actions

Construct(clock) ==
    /\ \E g \in Gens, mid \in MachineInputs, tid \in ThreadInputs :
         \E r \in ReadingsOn(clock, g) :
            \/ new(g, mid, tid, r)
            \/ \E e \in Epochs : with_epoch(g, e, mid, tid, r)
    /\ UNCHANGED <<first_id, built_at, conv>>

Generate(clock) ==
    /\ \E g \in Gens : \E r \in ReadingsOn(clock, g) : generate(g, r)
    /\ UNCHANGED <<first_id, built_at, conv>>

GenerateWait(clock) ==
    /\ \E g \in Gens : \E r \in ReadingsOn(clock, g) : generate_wait(g, r)
    /\ UNCHANGED <<first_id, built_at, conv>>

GenerateFuzzy(clock) ==
    /\ \E g \in Gens : \E r \in ReadingsOn(clock, g) : generate_fuzzy(g, r)
    /\ UNCHANGED <<first_id, built_at, conv>>

\* generate_fuzzy, with the first ID the generator returns kept in first_id.
GenerateFuzzyRecorded(clock) ==
    /\ \E g \in Gens : \E r \in ReadingsOn(clock, g) :
          /\ generate_fuzzy(g, r)
          /\ first_id' = IF first_id[g] = NoId
                         THEN [first_id EXCEPT ![g] = ret'[g]]
                         ELSE first_id
    /\ UNCHANGED <<built_at, conv>>

\* One generator, both operations, any clock.
Next ==
    \/ Construct("any")
    \/ Generate("any")
    \/ GenerateWait("any")
    \/ GenerateFuzzy("any")

Spec == Init /\ [][Next]_vars

\* One generator used only through generate, on a steady clock below 2^42.
NextSteadyGenerate ==
    \/ Construct("steady42")
    \/ Generate("steady42")
    \/ GenerateWait("steady42")

SpecSteadyGenerate == Init /\ [][NextSteadyGenerate]_vars

\* One generator used only through generate_fuzzy, on a steady clock that
\* leaves the timestamp field room.
NextSteadyFuzzy ==
    \/ Construct("steady_narrow")
    \/ GenerateFuzzyRecorded("steady_narrow")

SpecSteadyFuzzy == Init /\ [][NextSteadyFuzzy]_vars

\* One generator used only through generate, on a clock that never reads
\* before the epoch.  The busy-wait is a tight poll, so a waiting call keeps
\* taking readings; and the clock passes last_time at some point: a waiting
\* call takes a reading greater than last_time whenever the clock has one.
ClockPasses ==
    /\ \E g \in Gens : \E r \in ReadingsOn("from_epoch", g) :
          Lt(last_time[g], r) /\ generate_wait(g, r)
    /\ UNCHANGED <<first_id, built_at, conv>>

NextWait ==
    \/ Construct("from_epoch")
    \/ Generate("from_epoch")
    \/ GenerateWait("from_epoch")

SpecWait ==
    /\ Init /\ [][NextWait]_vars
    /\ WF_vars(GenerateWait("from_epoch"))
    /\ WF_vars(ClockPasses)

\* ---------------------------------------------------------- two generators

\* Two generators side by side, each in a state a generator reaches (its
\* identifiers passed the assertions of with_epoch, its counter is at the
\* start or at the end of its range, its last_time is a reading), before the
\* one call followed here.
PairIds == {0, IdLimit - 1}
PairCounters == {0, CounterMod - 1}

InitPair ==
    /\ pc = [g \in {1, 2} |-> "idle"]
    /\ epoch = [g \in {1, 2} |-> UNIX_EPOCH]
    /\ last_time \in [{1, 2} -> ClockValues]
    /\ machine_id \in [{1, 2} -> PairIds]
    /\ thread_id \in [{1, 2} -> PairIds]
    /\ counter \in [{1, 2} -> PairCounters]
    /\ op = [g \in {1, 2} |-> "with_epoch"]
    /\ tick = [g \in {1, 2} |-> FALSE]
    /\ args = [g \in {1, 2} |-> <<machine_id[g], thread_id[g]>>]
    /\ outcome = [g \in {1, 2} |-> "ok"]
    /\ ret = [g \in {1, 2} |-> NoId]
    /\ read = [g \in {1, 2} |-> NoRead]
    /\ reads = [g \in {1, 2} |-> 0]
    /\ first_id = [g \in {1, 2} |-> NoId]
    /\ built_at = [g \in {1, 2} |-> NoRead]
    /\ conv = NoConv

\* The call followed on each generator: generate or generate_fuzzy, once.
GenerateOnce ==
    /\ \E g \in Gens : \E r \in Readings :
          op[g] = "with_epoch" /\ generate(g, r)
    /\ UNCHANGED <<first_id, built_at, conv>>

GenerateFuzzyOnce ==
    /\ \E g \in Gens : \E r \in Readings :
          op[g] = "with_epoch" /\ generate_fuzzy(g, r)
    /\ UNCHANGED <<first_id, built_at, conv>>

NextPair ==
    \/ GenerateOnce
    \/ GenerateWait("any")
    \/ GenerateFuzzyOnce

SpecPair == InitPair /\ [][NextPair]_vars

\* ------------------------------------------------------------- conversions

\* Two generators from their construction to the first generate call of
\* each, on any clock; the last_time a generator starts with is kept in
\* built_at.
ConstructRecorded(clock) ==
    /\ \E g \in Gens, mid \in MachineInputs, tid \in ThreadInputs :
         \E r \in ReadingsOn(clock, g) :
            /\ \/ new(g, mid, tid, r)
               \/ \E e \in Epochs : with_epoch(g, e, mid, tid, r)
            /\ built_at' = IF outcome'[g] = "ok"
                           THEN [built_at EXCEPT ![g] = last_time'[g]]
                           ELSE built_at
    /\ UNCHANGED <<first_id, conv>>

InitTwins == Unbuilt({1, 2}) /\ conv = NoConv

NextTwins ==
    \/ ConstructRecorded("any")
    \/ GenerateOnce

SpecTwins == InitTwins /\ [][NextTwins]_vars

\* How many conversions are applied to one value.
MaxConversions == 2

\* u64 values to convert: 0, 0xFFFFFFFFFFFFFFFF, every single bit, and IDs
\* as generate and generate_fuzzy return them.
SampleU64 ==
    {Zero64, Max64}
        \cup {Shl(FromNat(1), k) : k \in 0..63}
        \cup {GenerateValue(t, m, th, c) :
                t \in ClockValues, m \in PairIds, th \in {10}, c \in PairCounters}
        \cup {GenerateFuzzyValue(t, m, th, c) :
                t \in ClockValues, m \in {21}, th \in PairIds, c \in {1, 4094}}

\* Snowflakes to convert: fields inside and outside the ranges of the layout.
SampleSnowflake ==
    [ time       : ClockValues \cup {Max64},
      machine_id : {0, 21, IdLimit - 1, IdLimit, 255},
      thread_id  : {0, 10, IdLimit - 1, IdLimit, 255},
      counter    : {0, 1, CounterMod - 1, CounterMod, 65535} ]

InitConv ==
    /\ Unbuilt({})
    /\ \/ \E v \in SampleU64 :
             conv = [kind |-> "u64", from |-> "u64", src |-> v, cur |-> v,
                     steps |-> 0]
       \/ \E sf \in SampleSnowflake :
             conv = [kind |-> "snowflake", from |-> "snowflake", src |-> sf,
                     cur |-> sf, steps |-> 0]

\* Snowflake::from(u64)
Decode ==
    /\ conv.kind = "u64"
    /\ conv.steps < MaxConversions
    /\ conv' = [conv EXCEPT !.kind = "snowflake",
                            !.cur = SnowflakeFromU64(conv.cur),
                            !.steps = conv.steps + 1]
    /\ UNCHANGED <<gen_vars, first_id, built_at>>

\* u64::from(Snowflake)
Encode ==
    /\ conv.kind = "snowflake"
    /\ conv.steps < MaxConversions
    /\ conv' = [conv EXCEPT !.kind = "u64",
                            !.cur = U64FromSnowflake(conv.cur),
                            !.steps = conv.steps + 1]
    /\ UNCHANGED <<gen_vars, first_id, built_at>>

NextConv == Decode \/ Encode

SpecConv == InitConv /\ [][NextConv]_vars

\* ------------------------------------------------------------- the claims

\* This step is the return of a call of operation name on g, with an ID:
\* the step of the call itself, or the step that leaves the busy-wait.
Returned(g, name) ==
    /\ tick'[g] # tick[g] \/ (pc[g] = "spin" /\ pc'[g] = "idle")
    /\ op'[g] = name /\ outcome'[g] = "ok" /\ ret'[g] # NoId

ReturnedId(g) == Returned(g, "generate") \/ Returned(g, "generate_fuzzy")

\* C1: with only generate in use and clock readings that never decrease and
\* stay below 2^42, every ID generate returns is strictly greater than the
\* ID the call before it returned, and so than every earlier ID.
C1_GenerateStrictlyIncreasing ==
    [][\A g \in Gens :
          Returned(g, "generate") /\ ret[g] # NoId => Lt(ret[g], ret'[g])]_vars

\* C1 witness: a generate call has returned after going through the
\* busy-wait, that is after 4096 IDs on one millisecond.
C1_Witness ==
    \E g \in Gens :
        /\ op[g] = "generate" /\ outcome[g] = "ok" /\ reads[g] >= 2
        /\ counter[g] = 0 /\ ret[g] # NoId

\* C2 as stated: for any clock readings at or after the epoch, a call that
\* returns an ID never returns the ID the call before it returned.
C2_ConsecutiveDifferAnyClock ==
    [][\A g \in Gens :
          ReturnedId(g) /\ ret[g] # NoId => ret'[g] # ret[g]]_vars

\* C2 as amended: the same, whenever the timestamps of the two IDs
\* (last_time after each of the two calls) are below 2^42.
C2_ConsecutiveDiffer ==
    [][\A g \in Gens :
          /\ ReturnedId(g) /\ ret[g] # NoId
          /\ Lt(last_time[g], TwoPow42) /\ Lt(last_time'[g], TwoPow42)
          => ret'[g] # ret[g]]_vars

\* C2 witness: two calls in a row have returned IDs, the second a
\* generate_fuzzy call that wrapped the counter and moved the timestamp one
\* millisecond past its reading (4096 IDs on one timestamp came before it).
C2_Witness ==
    \E g \in Gens :
        /\ op[g] = "generate_fuzzy" /\ outcome[g] = "ok" /\ counter[g] = 0
        /\ read[g] # TimeIsBeforeEpoch /\ last_time[g] = Add1(read[g])
        /\ Lt(last_time[g], TwoPow42)

\* C3: with only generate_fuzzy in use and a clock that never goes back, no
\* ID returned later equals the first ID the generator returned.
C3_FuzzyAllDistinct ==
    [][\A g \in Gens :
          Returned(g, "generate_fuzzy") /\ first_id[g] # NoId
              => ret'[g] # first_id[g]]_vars

\* C4: with a clock that never goes back, no generate_fuzzy call leaves
\* last_time below its value before the call.
C4_FuzzyLastTimeNeverDecreases ==
    [][\A g \in Gens :
          Returned(g, "generate_fuzzy")
              => Le(last_time[g], last_time'[g])]_vars

\* C5: two generators whose (machine_id, thread_id) pairs differ never
\* return the same ID, whatever each has read and whichever operation each
\* was called through.
C5_DistinctAcrossGenerators ==
    \A g \in Gens, h \in Gens :
        /\ g # h
        /\ <<machine_id[g], thread_id[g]>> # <<machine_id[h], thread_id[h]>>
        /\ ret[g] # NoId /\ ret[h] # NoId
        => ret[g] # ret[h]

\* C5 witness: two generators with different pairs have both returned an
\* ID on the same timestamp and counter, one through generate and one
\* through generate_fuzzy.
C5_Witness ==
    \E g \in Gens, h \in Gens :
        /\ <<machine_id[g], thread_id[g]>> # <<machine_id[h], thread_id[h]>>
        /\ ret[g] # NoId /\ ret[h] # NoId
        /\ op[g] = "generate" /\ op[h] = "generate_fuzzy"
        /\ last_time[g] = last_time[h] /\ counter[g] = counter[h]

\* Bit k of a u64 and of a small number.
Bit(v, k) == (v[(k \div WordBits) + 1] \div Pow2(k % WordBits)) % 2
BitOf(n, k) == (n \div Pow2(k)) % 2

\* A Snowflake inside the ranges of the layout.
InLayout(sf) ==
    /\ Lt(sf.time, TwoPow42)
    /\ sf.machine_id \in 0..31
    /\ sf.thread_id \in 0..31
    /\ sf.counter \in 0..4095

\* C6: encoding a Snowflake whose time is below 2^42, whose identifiers are
\* at most 31 and whose counter is at most 4095 puts time in bits 63..22,
\* machine_id in bits 21..17, thread_id in bits 16..12 and counter in bits
\* 11..0, and decoding the result gives the Snowflake back.
C6_RoundTripFromSnowflake ==
    (conv.kind # "none" /\ conv.from = "snowflake" /\ InLayout(conv.src))
        => /\ conv.steps = 1 =>
                /\ \A k \in 0..41 : Bit(conv.cur, 22 + k) = Bit(conv.src.time, k)
                /\ \A k \in 0..4 :
                      Bit(conv.cur, 17 + k) = BitOf(conv.src.machine_id, k)
                /\ \A k \in 0..4 :
                      Bit(conv.cur, 12 + k) = BitOf(conv.src.thread_id, k)
                /\ \A k \in 0..11 :
                      Bit(conv.cur, k) = BitOf(conv.src.counter, k)
           /\ conv.steps = 2 => conv.cur = conv.src

\* C6 witness: the Snowflake with every field at the top of its range has
\* been encoded and decoded again.
C6_Witness ==
    /\ conv.kind # "none" /\ conv.from = "snowflake" /\ conv.steps = 2
    /\ conv.src = [time |-> TwoPow42Minus1, machine_id |-> 31,
                   thread_id |-> 31, counter |-> 4095]

\* C7: every u64 can be decoded, decoding and encoding again gives the same
\* u64, and 0 decodes to time 0, machine_id 0, thread_id 0, counter 0.
C7_RoundTripFromU64 ==
    (conv.kind # "none" /\ conv.from = "u64")
        => /\ conv.steps = 0 => ENABLED Decode
           /\ (conv.steps = 1 /\ conv.src = Zero64) =>
                conv.cur = [time |-> Zero64, machine_id |-> 0,
                            thread_id |-> 0, counter |-> 0]
           /\ conv.steps = 2 => conv.cur = conv.src

\* C7 witness: an ID as generate returns it, with bits set in every field,
\* has been decoded and encoded again.
C7_Witness ==
    /\ conv.kind # "none" /\ conv.from = "u64" /\ conv.steps = 2
    /\ conv.src = GenerateValue(FromNat(1), IdLimit - 1, 10, CounterMod - 1)

\* C8 as stated: 0xFFFFFFFFFFFFFFFF decodes to time 0xFFFFFFFFFFFFFFFF >> 22,
\* machine_id 31, thread_id 31, counter 4095, and encoding that Snowflake
\* does not give 0xFFFFFFFFFFFFFFFF back.
C8_MaxDoesNotRoundTrip ==
    (conv.kind # "none" /\ conv.from = "u64" /\ conv.src = Max64)
        => /\ conv.steps = 1 =>
                conv.cur = [time |-> TwoPow42Minus1, machine_id |-> 31,
                            thread_id |-> 31, counter |-> 4095]
           /\ conv.steps = 2 => conv.cur # Max64

\* C8 as amended: 0xFFFFFFFFFFFFFFFF decodes to time 0xFFFFFFFFFFFFFFFF >> 22
\* = 2^42 - 1, which fits in 42 bits, machine_id 31, thread_id 31, counter
\* 4095, and encoding that Snowflake gives 0xFFFFFFFFFFFFFFFF back.
C8_MaxRoundTrips ==
    (conv.kind # "none" /\ conv.from = "u64" /\ conv.src = Max64)
        => /\ conv.steps = 1 =>
                /\ conv.cur = [time |-> TwoPow42Minus1, machine_id |-> 31,
                               thread_id |-> 31, counter |-> 4095]
                /\ Lt(conv.cur.time, TwoPow42)
           /\ conv.steps = 2 => conv.cur = Max64

\* C8 witness: 0xFFFFFFFFFFFFFFFF has been decoded and encoded again.
C8_Witness ==
    /\ conv.kind # "none" /\ conv.from = "u64" /\ conv.steps = 2
    /\ conv.src = Max64

\* C9: a construction call fails, leaving no generator, when machine_id or
\* thread_id is 32 or more; with both below 32 and the clock at or after the
\* epoch it succeeds, and the generator starts with counter 0, last_time the
\* reading taken, and the identifiers passed.
C9_Construction ==
    \A g \in Gens :
        op[g] = "with_epoch" =>
            LET valid == args[g][1] < 32 /\ args[g][2] < 32
            IN  /\ ~valid => outcome[g] = "panic" /\ pc[g] = "none"
                /\ outcome[g] = "ok" => valid /\ pc[g] = "idle"
                /\ (valid /\ read[g] # TimeIsBeforeEpoch) =>
                      /\ outcome[g] = "ok" /\ pc[g] = "idle"
                      /\ counter[g] = 0
                      /\ last_time[g] = read[g]
                      /\ machine_id[g] = args[g][1]
                      /\ thread_id[g] = args[g][2]

\* C9 witness: a construction with machine_id 31 has succeeded on a reading
\* past the epoch.
C9_Witness ==
    \E g \in Gens :
        /\ op[g] = "with_epoch" /\ outcome[g] = "ok" /\ pc[g] = "idle"
        /\ args[g][1] = 31 /\ read[g] = FromNat(1)

\* C10: right after a clock reading before the epoch the call that took it
\* has failed: it is no longer running, it has returned no ID, and a
\* construction call has left no generator.
C10_BeforeEpochFails ==
    \A g \in Gens :
        /\ read[g] = TimeIsBeforeEpoch =>
              /\ outcome[g] = "panic" /\ ret[g] = NoId /\ pc[g] # "spin"
              /\ op[g] = "with_epoch" => pc[g] = "none"
        /\ (outcome[g] = "ok" /\ op[g] # "none") => read[g] \in ClockValues

\* C10 witness: a generate call has failed on a reading taken inside its
\* busy-wait.
C10_Witness ==
    \E g \in Gens :
        /\ op[g] = "generate" /\ outcome[g] = "panic" /\ reads[g] >= 2
        /\ read[g] = TimeIsBeforeEpoch

\* The Snowflake a generator's fields make, as the conversions see it.
StateSnowflake(g) ==
    [time |-> last_time[g], machine_id |-> machine_id[g],
     thread_id |-> thread_id[g], counter |-> counter[g]]

\* C11: a generate call enters its busy-wait exactly when it reads a clock
\* value equal to last_time with the counter at 4095, and it has then not
\* returned; while waiting it returns only on a reading strictly greater
\* than last_time, and the ID it returns then is the encoding of that
\* reading with counter 0 (its time field is the reading itself when the
\* reading is below 2^42).
C11_WrapWaitsForLaterReading ==
    [][\A g \in Gens :
          /\ (tick'[g] # tick[g] /\ op'[g] = "generate"
                /\ read'[g] = last_time[g] /\ counter[g] = CounterMod - 1)
             => /\ pc'[g] = "spin" /\ outcome'[g] = "running"
                /\ counter'[g] = 0 /\ ret'[g] = ret[g]
                /\ last_time'[g] = last_time[g]
          /\ (pc[g] = "spin" /\ read'[g] # TimeIsBeforeEpoch
                /\ ~Lt(last_time[g], read'[g]))
             => /\ pc'[g] = "spin" /\ outcome'[g] = "running"
                /\ ret'[g] = ret[g]
          /\ (pc[g] = "spin" /\ outcome'[g] = "ok")
             => /\ Lt(last_time[g], read'[g])
                /\ last_time'[g] = read'[g] /\ counter'[g] = 0
                /\ ret'[g] = U64FromSnowflake(
                      [time |-> read'[g], machine_id |-> machine_id[g],
                       thread_id |-> thread_id[g], counter |-> 0])
                /\ SnowflakeFromU64(ret'[g]).counter = 0
                /\ Lt(read'[g], TwoPow42)
                      => SnowflakeFromU64(ret'[g]).time = read'[g]]_vars

\* C11 witness: a generate call that wrapped the counter has returned after
\* at least three readings, the last of them one millisecond past the
\* last_time it waited on.
C11_Witness ==
    \E g \in Gens :
        /\ op[g] = "generate" /\ outcome[g] = "ok" /\ reads[g] = MaxReads
        /\ counter[g] = 0 /\ last_time[g] = FromNat(1)
        /\ ret[g] = U64FromSnowflake(StateSnowflake(g))

\* The greatest reading the clock of the model has.
LastClockValue == CHOOSE m \in ClockValues : \A r \in ClockValues : Le(r, m)

\* C12: on a clock that never reads before the epoch, a generate call that
\* did not wrap the counter returns at once; one that wrapped it returns
\* once the clock has read a value greater than last_time, which it does
\* whenever there is such a value; and it never returns on a reading less
\* than or equal to last_time.
C12_GenerateReturnsWhenClockPasses ==
    /\ \A g \in {1} :
          (pc[g] = "spin" /\ Lt(last_time[g], LastClockValue))
              ~> (pc[g] = "idle" /\ op[g] = "generate" /\ outcome[g] = "ok")
    /\ [][\A g \in Gens :
            /\ (tick'[g] # tick[g] /\ op'[g] = "generate"
                  /\ ~(read'[g] = last_time[g] /\ counter[g] = CounterMod - 1))
               => outcome'[g] = "ok" /\ pc'[g] = "idle"
            /\ (pc[g] = "spin" /\ Le(read'[g], last_time[g]))
               => pc'[g] = "spin" /\ outcome'[g] = "running"]_vars

\* C12 witness: a generate call that waited on last_time 2^42 - 1 has
\* returned on its second reading, 2^42.
C12_Witness ==
    \E g \in Gens :
        /\ op[g] = "generate" /\ outcome[g] = "ok" /\ reads[g] = 2
        /\ counter[g] = 0 /\ last_time[g] = TwoPow42

\* This step is a call of generate_fuzzy on g.
FuzzyCalled(g) == tick'[g] # tick[g] /\ op'[g] = "generate_fuzzy"

\* The call of generate_fuzzy has returned an ID after one clock reading.
FuzzyReturnedAtOnce(g) ==
    /\ outcome'[g] = "ok" /\ ret'[g] # NoId
    /\ reads'[g] = 1 /\ pc'[g] = "idle"

\* C13 as stated: every generate_fuzzy call returns an ID after exactly one
\* clock reading, whatever the state and the clock.
C13_FuzzyReturnsAtOnceAnyClock ==
    [][\A g \in Gens : FuzzyCalled(g) => FuzzyReturnedAtOnce(g)]_vars

\* C13 as amended: every generate_fuzzy call takes exactly one clock reading
\* and never waits; whatever the state, it returns an ID when that reading
\* is at or after the epoch, also when the reading is not past last_time and
\* the counter wraps from 4095 to 0.
C13_FuzzyReturnsAtOnce ==
    [][\A g \in Gens :
          /\ FuzzyCalled(g) => reads'[g] = 1 /\ pc'[g] = "idle"
          /\ (FuzzyCalled(g) /\ read'[g] # TimeIsBeforeEpoch)
                => FuzzyReturnedAtOnce(g)]_vars

\* C13 witness: a generate_fuzzy call has returned on the counter wrap with
\* the clock still at the reading of construction, 0 ms.
C13_Witness ==
    \E g \in Gens :
        /\ op[g] = "generate_fuzzy" /\ outcome[g] = "ok" /\ reads[g] = 1
        /\ counter[g] = 0 /\ read[g] = Zero64 /\ last_time[g] = FromNat(1)

\* Generators g and h were constructed with the same identifiers and epoch,
\* and the first generate call of each has returned on the same reading.
TwinsCalled(g, h) ==
    /\ g # h
    /\ machine_id[g] = machine_id[h] /\ thread_id[g] = thread_id[h]
    /\ epoch[g] = epoch[h]
    /\ op[g] = "generate" /\ outcome[g] = "ok"
    /\ op[h] = "generate" /\ outcome[h] = "ok"
    /\ read[g] = read[h]

FuzzyWrapped(g) ==
    /\ Returned(g, "generate_fuzzy")
    /\ counter[g] = CounterMod - 1 /\ counter'[g] = 0
    /\ NotAdvanced(read'[g], last_time[g])

\* C15: a generate_fuzzy call that wraps the counter from 4095 to 0 stores
\* in last_time, and encodes in the ID, the millisecond after the last_time
\* in use before the call, whatever the clock reads at or after the epoch.
C15_FuzzyWrapIsOnePastLastTime ==
    [][\A g \in Gens :
          FuzzyWrapped(g)
              => /\ last_time'[g] = Add1(last_time[g])
                 /\ ret'[g] = U64FromSnowflake(
                       [time |-> Add1(last_time[g]),
                        machine_id |-> machine_id[g],
                        thread_id |-> thread_id[g], counter |-> 0])]_vars

\* This step is the return of a generate call on g that follows a generate
\* call which returned an ID, and the two IDs decode to the same time field.
SameTimeField(g) ==
    /\ Returned(g, "generate") /\ ret[g] # NoId
    /\ SnowflakeFromU64(ret'[g]).time = SnowflakeFromU64(ret[g]).time

\* C16 as stated: of two consecutive generate calls whose IDs decode to the
\* same time field, the second ID's counter is the first ID's counter plus
\* 1; the pair 4095 then 0 does not occur.
C16_SameTimeCounterPlusOneAnyClock ==
    [][\A g \in Gens :
          SameTimeField(g)
              => SnowflakeFromU64(ret'[g]).counter =
                    SnowflakeFromU64(ret[g]).counter + 1]_vars

\* C16 as amended: the same, whenever the timestamps of the two IDs
\* (last_time after each of the two calls) are below 2^42.
C16_SameTimeCounterPlusOne ==
    [][\A g \in Gens :
          /\ SameTimeField(g)
          /\ Lt(last_time[g], TwoPow42) /\ Lt(last_time'[g], TwoPow42)
          => /\ last_time'[g] = last_time[g]
             /\ SnowflakeFromU64(ret'[g]).counter =
                   SnowflakeFromU64(ret[g]).counter + 1]_vars

\* C16 witness: a generate call has returned the 4096th ID of one
\* millisecond, counter 4095, right after the ID with counter 4094.
C16_Witness ==
    \E g \in Gens :
        /\ op[g] = "generate" /\ outcome[g] = "ok" /\ reads[g] = 1
        /\ counter[g] = CounterMod - 1 /\ read[g] = last_time[g]
        /\ Lt(last_time[g], TwoPow42)
        /\ SnowflakeFromU64(ret[g]).counter = CounterMod - 1

\* C17: counter is always in 0..4095, and a step of a generate or
\* generate_fuzzy call that leaves last_time strictly greater than before
\* leaves counter 0.
C17_CounterRangeAndReset ==
    [][\A g \in Gens :
          /\ counter[g] \in 0..(CounterMod - 1)
          /\ counter'[g] \in 0..(CounterMod - 1)
          /\ (pc[g] # "none" /\ op'[g] \in {"generate", "generate_fuzzy"}
                /\ Lt(last_time[g], last_time'[g]))
             => counter'[g] = 0]_vars

\* C17 witness: a generate_fuzzy call that read 2^42 - 1 ms with the counter
\* at 4095 has moved last_time up to 2^42 and left the counter 0.
C17_Witness ==
    \E g \in Gens :
        /\ op[g] = "generate_fuzzy" /\ outcome[g] = "ok"
        /\ read[g] = TwoPow42Minus1 /\ last_time[g] = TwoPow42
        /\ counter[g] = 0

\* The last call on g was a generation call that returned an ID, and g has
\* not been called since.
HoldsReturnedId(g) ==
    /\ op[g] \in {"generate", "generate_fuzzy"}
    /\ outcome[g] = "ok" /\ pc[g] = "idle"

\* C18: every ID returned by generate or generate_fuzzy is the encoding of
\* (last_time, machine_id, thread_id, counter) as the generator holds them
\* right after the call, and no step of a generation call changes
\* machine_id, thread_id or epoch, which stay as construction set them.
C18_IdEncodesStateAfterCall ==
    /\ [](\A g \in Gens :
            /\ HoldsReturnedId(g)
                  => ret[g] = U64FromSnowflake(StateSnowflake(g))
            /\ pc[g] # "none" => <<machine_id[g], thread_id[g]>> = args[g])
    /\ [][\A g \in Gens :
            /\ ReturnedId(g) => HoldsReturnedId(g)'
            /\ pc[g] # "none"
                  => /\ machine_id'[g] = machine_id[g]
                     /\ thread_id'[g] = thread_id[g]
                     /\ epoch'[g] = epoch[g]
                     /\ args'[g] = args[g]]_vars

\* C18 witness: a generator constructed with a custom epoch and identifiers
\* 31 and 10 has returned, through generate_fuzzy, the ID with timestamp 1
\* and counter 4095.
C18_Witness ==
    \E g \in Gens :
        /\ op[g] = "generate_fuzzy" /\ outcome[g] = "ok"
        /\ epoch[g] # UNIX_EPOCH /\ machine_id[g] = 31 /\ thread_id[g] = 10
        /\ ret[g] = U64FromSnowflake(
              [time |-> FromNat(1), machine_id |-> 31, thread_id |-> 10,
               counter |-> CounterMod - 1])

\* C19: after a generate_fuzzy call last_time is the reading of that call
\* or that reading plus 1, however many times the counter wrapped before;
\* after a generate call it is the last reading of that call; and the ID
\* encodes that last_time (its time field is last_time itself below 2^42).
C19_TimestampFollowsReading ==
    \A g \in Gens :
        /\ (HoldsReturnedId(g) /\ op[g] = "generate_fuzzy")
              => last_time[g] \in {read[g], Add1(read[g])}
        /\ (HoldsReturnedId(g) /\ op[g] = "generate")
              => last_time[g] = read[g]
        /\ (HoldsReturnedId(g) /\ Lt(last_time[g], TwoPow42))
              => SnowflakeFromU64(ret[g]).time = last_time[g]

\* C19 witness: a generate_fuzzy call that read 1 ms has wrapped the counter
\* and returned an ID with time field 2, one millisecond ahead of the clock.
C19_Witness ==
    \E g \in Gens :
        /\ op[g] = "generate_fuzzy" /\ outcome[g] = "ok"
        /\ read[g] = FromNat(1) /\ counter[g] = 0
        /\ SnowflakeFromU64(ret[g]).time = FromNat(2)

\* C20: a generate or generate_fuzzy call that fails on a reading before the
\* epoch leaves last_time and counter as they were before the call: a call
\* that fails on its first reading changes neither, and a generate call
\* that fails inside its busy-wait, which it entered with counter 4095,
\* leaves last_time as it was and counter 4095.
C20_FailedCallChangesNothing ==
    [][\A g \in Gens :
          /\ (tick'[g] # tick[g] /\ op'[g] \in {"generate", "generate_fuzzy"}
                /\ outcome'[g] = "panic")
             => last_time'[g] = last_time[g] /\ counter'[g] = counter[g]
          /\ (pc[g] = "spin" /\ outcome'[g] = "panic")
             => /\ last_time'[g] = last_time[g]
                /\ counter'[g] = CounterMod - 1]_vars

====
